---- MODULE Spec2Model ----
(***************************************************************************)
(* Authority scoring engine (analysis.ts, computeAuthority) of the YouTube *)
(* Authority Radar backend, as called by GET /api/analysis/authority.      *)
(*                                                                         *)
(* Numbers.  JavaScript numbers in [0,1] (signals, raw scores) are kept as *)
(* integers in units of 1/Scale.  Math.exp and Math.log10 are library      *)
(* primitives: Exp240 and Log10 give their values, rounded to 1/Scale, at  *)
(* the arguments the inputs of this model produce.  The fixed weights of   *)
(* the score formulas are multiples of 0.05 and are kept in twentieths.    *)
(* Strings are sequences of one-character strings.  Dates are whole days   *)
(* since the epoch.  null/undefined is Null (numbers, dates) or NullStr    *)
(* (strings).                                                              *)
(***************************************************************************)
EXTENDS Integers, Sequences, FiniteSets

Scale == 100000

Null == -999999

\* the number NaN
NaN == -888888
NullStr == <<"null">>

\* ---------------------------------------------------------------- lexicons
AUTHORITY_KEYWORDS ==
  << <<"m", "e", "t", "o", "d", "o", "l", "o", "g", "í", "a">>,
     <<"f", "r", "a", "m", "e", "w", "o", "r", "k">>,
     <<"a", "r", "q", "u", "i", "t", "e", "c", "t", "u", "r", "a">>,
     <<"s", "i", "s", "t", "e", "m", "a">>,
     <<"p", "i", "p", "e", "l", "i", "n", "e">>,
     <<"b", "e", "n", "c", "h", "m", "a", "r", "k">>,
     <<"b", "e", "n", "c", "h", "m", "a", "r", "k", "i", "n", "g">>,
     <<"c", "a", "s", "o", " ", "r", "e", "a", "l">>,
     <<"c", "a", "s", "o", "s", " ", "r", "e", "a", "l", "e", "s">>,
     <<"p", "a", "t", "r", "ó", "n">>,
     <<"p", "a", "t", "r", "o", "n", "e", "s">>,
     <<"d", "i", "s", "e", "ñ", "o">>,
     <<"i", "n", "t", "e", "g", "r", "a", "t", "i", "o", "n">>,
     <<"i", "n", "t", "e", "g", "r", "a", "c", "i", "ó", "n">>,
     <<"p", "r", "o", "d", "u", "c", "t", "i", "v", "i", "d", "a", "d">>,
     <<"w", "o", "r", "k", "f", "l", "o", "w">>,
     <<"t", "r", "a", "z", "a", "b", "i", "l", "i", "d", "a", "d">>,
     <<"o", "b", "s", "e", "r", "v", "a", "b", "i", "l", "i", "d", "a", "d">>,
     <<"c", "a", "l", "i", "d", "a", "d">>,
     <<"s", "e", "g", "u", "r", "i", "d", "a", "d">>,
     <<"r", "e", "f", "a", "c", "t", "o", "r">>,
     <<"r", "e", "f", "a", "c", "t", "o", "r", "i", "z", "a", "c", "i", "ó", "n">>,
     <<"e", "s", "c", "a", "l", "a">>,
     <<"e", "s", "c", "a", "l", "a", "b", "l", "e">>,
     <<"l", "a", "t", "e", "n", "c", "i", "a">>,
     <<"p", "e", "r", "f", "o", "r", "m", "a", "n", "c", "e">>,
     <<"m", "é", "t", "r", "i", "c", "a", "s">>,
     <<"t", "e", "s", "t", "i", "n", "g">>,
     <<"e", "v", "a", "l">>,
     <<"e", "v", "a", "l", "u", "a", "c", "i", "ó", "n">>,
     <<"c", "o", "s", "t", "e">>,
     <<"c", "o", "s", "t", "o", "s">> >>

CLICKBAIT_KEYWORDS ==
  << <<"n", "o", " ", "c", "r", "e", "e", "r", "á", "s">>,
     <<"i", "n", "c", "r", "e", "í", "b", "l", "e">>,
     <<"s", "e", "c", "r", "e", "t", "o">>,
     <<"t", "r", "u", "c", "o">>,
     <<"h", "a", "c", "k">>,
     <<"v", "i", "r", "a", "l">>,
     <<"b", "o", "m", "b", "a">>,
     <<"e", "x", "p", "l", "o", "t", "a">>,
     <<"i", "m", "p", "a", "c", "t", "a", "n", "t", "e">>,
     <<"1", "0", "0", "x">>,
     <<"x", "1", "0">>,
     <<"x", "1", "0", "0">>,
     <<"t", "e", " ", "v", "a", " ", "a", " ", "v", "o", "l", "a", "r", " ", "l", "a", " ", "c", "a", "b", "e", "z", "a">>,
     <<"l", "o", "c", "u", "r", "a">>,
     <<"b", "r", "u", "t", "a", "l">> >>

\* ------------------------------------------------------- string primitives
LowerCaseOf ==
  [c \in {"A", "B", "C", "D", "E", "F", "G", "H", "I", "J", "K", "L", "M", "N", "O", "P", "Q", "R", "S", "T", "U", "V", "W", "X", "Y", "Z", "Á", "É", "Í", "Ó", "Ú", "Ñ"} |->
     CASE c = "A" -> "a"
       [] c = "B" -> "b"
       [] c = "C" -> "c"
       [] c = "D" -> "d"
       [] c = "E" -> "e"
       [] c = "F" -> "f"
       [] c = "G" -> "g"
       [] c = "H" -> "h"
       [] c = "I" -> "i"
       [] c = "J" -> "j"
       [] c = "K" -> "k"
       [] c = "L" -> "l"
       [] c = "M" -> "m"
       [] c = "N" -> "n"
       [] c = "O" -> "o"
       [] c = "P" -> "p"
       [] c = "Q" -> "q"
       [] c = "R" -> "r"
       [] c = "S" -> "s"
       [] c = "T" -> "t"
       [] c = "U" -> "u"
       [] c = "V" -> "v"
       [] c = "W" -> "w"
       [] c = "X" -> "x"
       [] c = "Y" -> "y"
       [] c = "Z" -> "z"
       [] c = "Á" -> "á"
       [] c = "É" -> "é"
       [] c = "Í" -> "í"
       [] c = "Ó" -> "ó"
       [] c = "Ú" -> "ú"
       [] c = "Ñ" -> "ñ"]

\* String.prototype.toLowerCase
toLowerCase(s) ==
  [i \in 1..Len(s) |-> IF s[i] \in DOMAIN LowerCaseOf THEN LowerCaseOf[s[i]] ELSE s[i]]

\* String.prototype.includes
includes(text, keyword) ==
  \E i \in 0..(Len(text) - Len(keyword)) :
     \A j \in 1..Len(keyword) : text[i + j] = keyword[j]

\* `${row.title ?? ""} ${row.description ?? ""}`.toLowerCase()
textOf(row) ==
  toLowerCase((IF row.title = NullStr THEN <<>> ELSE row.title)
              \o <<" ">> \o
              (IF row.description = NullStr THEN <<>> ELSE row.description))

\* ------------------------------------------------------ numeric primitives
Min2(a, b) == IF a < b THEN a ELSE b
Max2(a, b) == IF a > b THEN a ELSE b

clampUnbounded(value, min, max) == Max2(value, min)

\* clamp(value, min, max) = Math.min(Math.max(value, min), max); Math.max and
\* Math.min return NaN when an argument is NaN
clamp(value, min, max) == IF value = NaN THEN NaN ELSE Min2(Max2(value, min), max)

\* Math.round of the rational num/den (den > 0): floor(num/den + 1/2)
MathRound(num, den) == (2 * num + den) \div (2 * den)

\* round(value) = Math.round(value * 100) / 100, value in units of 1/Scale
round(value) == MathRound(value * 100, Scale) * (Scale \div 100)

\* Math.exp(-diffDays / 240) in units of 1/Scale
Exp240(diffDays) ==
  CASE diffDays = -480 -> 738906
    [] diffDays = -380 -> 487117
    [] diffDays = 0 -> 100000
    [] diffDays = 100 -> 65924
    [] diffDays = 200 -> 43460
    [] diffDays = 240 -> 36788
    [] diffDays = 340 -> 24252
    [] diffDays = 2400 -> 5
    [] diffDays = 2500 -> 3

\* Math.log10(num / den) in units of 1/Scale, truncated downwards; NaN for a
\* negative argument
Log10(num, den) ==
  IF num < 0 THEN NaN
  ELSE CASE num = 1 /\ den = 1 -> 0
         [] num = 2 /\ den = 1 -> 30102
         [] num = 500 /\ den = 1000 -> -30103
         [] num = 1000 /\ den = 1 -> 300000
         [] num = 1001 /\ den = 1 -> 300043
         [] num = 1500 /\ den = 1000 -> 17609
         [] num = 4500 /\ den = 5000 -> -4576
         [] num = 5500 /\ den = 5000 -> 4139
         [] num = 46000 /\ den = 1000 -> 166275
         [] num = 50000 /\ den = 5000 -> 100000
         [] num = 100000 /\ den = 1 -> 500000
         [] num = 100001 /\ den = 1 -> 500000
         [] num = 100500 /\ den = 100000 -> 216
         [] num = 145000 /\ den = 100000 -> 16136
         [] num = 999998 /\ den = 1 -> 599999
         [] num = 999999 /\ den = 1 -> 599999
         [] num = 1000000 /\ den = 1 -> 600000
         [] num = 1000001 /\ den = 1 -> 600000
         [] num = 1001000 /\ den = 1000 -> 300043
         [] num = 1005000 /\ den = 5000 -> 230319
         [] num = 1100000 /\ den = 100000 -> 104139
         [] num = 2000000 /\ den = 1 -> 630102
         [] num = 2000001 /\ den = 1 -> 630103

\* ------------------------------------------------------- signal extractors
scoreDepthInclusive(duration) ==
  IF duration = Null \/ duration = 0 THEN Scale \div 5
  ELSE IF duration <= 300 THEN Scale \div 5
  ELSE IF duration <= 720 THEN (45 * Scale) \div 100
  ELSE IF duration <= 1200 THEN (7 * Scale) \div 10
  ELSE IF duration <= 2100 THEN (9 * Scale) \div 10
  ELSE Scale

scoreDepthUnknownZero(duration) ==
  IF duration = Null \/ duration = 0 THEN 0
  ELSE IF duration < 300 THEN Scale \div 5
  ELSE IF duration < 720 THEN (45 * Scale) \div 100
  ELSE IF duration < 1200 THEN (7 * Scale) \div 10
  ELSE IF duration < 2100 THEN (9 * Scale) \div 10
  ELSE Scale

scoreDepth(duration) ==
  IF duration = Null \/ duration = 0 THEN Scale \div 5
  ELSE IF duration < 300 THEN Scale \div 5
  ELSE IF duration < 720 THEN (45 * Scale) \div 100
  ELSE IF duration < 1200 THEN (7 * Scale) \div 10
  ELSE IF duration < 2100 THEN (9 * Scale) \div 10
  ELSE Scale

halfLife == 240

scoreRecencyUnknownZero(dateValue, now) ==
  IF dateValue = Null THEN 0
  ELSE LET diffDays == now - dateValue
       IN  Exp240(diffDays)

scoreRecencyWholeHalfLives(dateValue, now) ==
  IF dateValue = Null THEN (4 * Scale) \div 10
  ELSE LET diffDays == now - dateValue
       IN  Exp240((diffDays \div halfLife) * halfLife)

\* now = Date.now(), in days
scoreRecency(dateValue, now) ==
  IF dateValue = Null THEN (4 * Scale) \div 10
  ELSE LET diffDays == now - dateValue
       IN  Exp240(diffDays)

SUBS_FLOOR == 5000

scoreEngagementUnclamped(views, subs) ==
  IF views = Null \/ views = 0 THEN Scale \div 5
  ELSE LET denominator == IF subs # Null /\ subs # 0 /\ subs > 0 THEN subs ELSE SUBS_FLOOR
           scaled == Log10(denominator + 10 * views, denominator)
       IN  IF scaled = NaN THEN NaN ELSE scaled \div 2

scoreEngagementSubsRequired(views, subs) ==
  IF views = Null \/ views = 0 \/ subs = Null \/ subs = 0 THEN Scale \div 5
  ELSE LET denominator == IF subs > 0 THEN subs ELSE SUBS_FLOOR
           scaled == Log10(denominator + 10 * views, denominator)
       IN  clamp(IF scaled = NaN THEN NaN ELSE scaled \div 2, 0, Scale)

scoreEngagement(views, subs) ==
  IF views = Null \/ views = 0 THEN Scale \div 5
  ELSE LET denominator == IF subs # Null /\ subs # 0 /\ subs > 0 THEN subs ELSE SUBS_FLOOR
           scaled == Log10(denominator + 10 * views, denominator)
       IN  clamp(IF scaled = NaN THEN NaN ELSE scaled \div 2, 0, Scale)

scoreSubscribersNoPlusOne(subs) ==
  IF subs = Null \/ subs = 0 THEN Scale \div 5
  ELSE LET log == Log10(subs, 1)
           scaled == IF log = NaN THEN NaN ELSE log \div 6
       IN  clamp(scaled, 0, Scale)

scoreSubscribers(subs) ==
  IF subs = Null \/ subs = 0 THEN Scale \div 5
  ELSE LET log == Log10(subs + 1, 1)
           scaled == IF log = NaN THEN NaN ELSE log \div 6
       IN  clamp(scaled, 0, Scale)

scoreKeywordDensityOccurrences(text, keywords) ==
  IF text = <<>> THEN 0
  ELSE LET hits == Cardinality({p \in (DOMAIN keywords) \X (0..Len(text)) :
                      /\ p[2] + Len(keywords[p[1]]) <= Len(text)
                      /\ \A j \in 1..Len(keywords[p[1]]) :
                           text[p[2] + j] = keywords[p[1]][j]})
       IN  clamp((hits * Scale) \div 4, 0, Scale)

scoreKeywordDensity(text, keywords) ==
  IF text = <<>> THEN 0
  ELSE LET hits == Cardinality({k \in DOMAIN keywords : includes(text, keywords[k])})
       IN  clamp((hits * Scale) \div 4, 0, Scale)

RECURSIVE SumSeq(_)
SumSeq(values) ==
  IF values = <<>> THEN 0 ELSE Head(values) + SumSeq(Tail(values))

\* average(values) as the exact rational num/den
average(values) ==
  IF Len(values) = 0 THEN [num |-> 0, den |-> 1]
  ELSE [num |-> SumSeq(values), den |-> Len(values)]

RECURSIVE latestFromFirstKnown(_, _)
latestFromFirstKnown(values, latest) ==
  IF values = <<>> THEN latest
  ELSE LET value == Head(values)
       IN  IF value = Null THEN latestFromFirstKnown(Tail(values), latest)
           ELSE IF latest = Null THEN latestFromFirstKnown(Tail(values), value)
           ELSE latestFromFirstKnown(Tail(values), latest)

\* latestDate(values): the largest non-null date, or null
RECURSIVE latestFrom(_, _)
latestFrom(values, latest) ==
  IF values = <<>> THEN latest
  ELSE LET value == Head(values)
       IN  IF value = Null THEN latestFrom(Tail(values), latest)
           ELSE IF latest = Null THEN latestFrom(Tail(values), value)
           ELSE IF value > latest THEN latestFrom(Tail(values), value)
           ELSE latestFrom(Tail(values), latest)

latestDate(values) == latestFrom(values, Null)

\* ---------------------------------------------------------- video scorer
\* weights of raw, in twentieths: 0.35, 0.25, 0.2, 0.2, 0.15
W_DEPTH == 7
W_KEYWORD == 5
W_ENGAGEMENT == 4
W_RECENCY == 4
W_CLICKBAIT == 3

\* the factor 0.6 of clickbaitPenalty, in tenths
CLICKBAIT_FACTOR == 6

clickbaitPenaltyOf(text) ==
  (scoreKeywordDensity(text, CLICKBAIT_KEYWORDS) * CLICKBAIT_FACTOR) \div 10

\* the five signals of a row, before rounding
signalsOf(row, now) ==
  LET text == textOf(row)
  IN  [ depthScore |-> scoreDepth(row.duration_seconds),
        keywordScore |-> scoreKeywordDensity(text, AUTHORITY_KEYWORDS),
        clickbaitPenalty |-> clickbaitPenaltyOf(text),
        engagementScore |-> scoreEngagement(row.view_count, row.subscriber_count),
        recencyScore |-> scoreRecency(row.published_at, now) ]

rawOfPenaltyAdded(s) ==
  W_DEPTH * s.depthScore
  + W_KEYWORD * s.keywordScore
  + W_ENGAGEMENT * s.engagementScore
  + W_RECENCY * s.recencyScore
  + W_CLICKBAIT * s.clickbaitPenalty

\* raw, in units of 1/(20 * Scale)
rawOf(s) ==
  W_DEPTH * s.depthScore
  + W_KEYWORD * s.keywordScore
  + W_ENGAGEMENT * s.engagementScore
  + W_RECENCY * s.recencyScore
  - W_CLICKBAIT * s.clickbaitPenalty

videoScoreOfNoFloor(raw) == MathRound(Min2(raw, 20 * Scale) * 100, 20 * Scale)

\* Math.round(clamp(raw, 0, 1) * 100)
videoScoreOf(raw) == MathRound(clamp(raw, 0, 20 * Scale) * 100, 20 * Scale)

scoreVideoUnrounded(row, s) ==
  [ id |-> row.id,
      title |-> row.title,
      channelId |-> row.channel_id,
      channelTitle |-> row.channel_title,
      thumbnailUrl |-> row.thumbnail_url,
      publishedAt |-> row.published_at,
      durationSeconds |-> row.duration_seconds,
      viewCount |-> row.view_count,
      score |-> videoScoreOf(rawOf(s)),
      signals |->
        [ depth |-> s.depthScore,
          methodology |-> s.keywordScore,
          engagement |-> s.engagementScore,
          recency |-> s.recencyScore,
          clickbaitPenalty |-> s.clickbaitPenalty ] ]

\* the callback of rows.map, s its five locals
scoreVideo(row, s) ==
  [ id |-> row.id,
      title |-> row.title,
      channelId |-> row.channel_id,
      channelTitle |-> row.channel_title,
      thumbnailUrl |-> row.thumbnail_url,
      publishedAt |-> row.published_at,
      durationSeconds |-> row.duration_seconds,
      viewCount |-> row.view_count,
      score |-> videoScoreOf(rawOf(s)),
      signals |->
        [ depth |-> round(s.depthScore),
          methodology |-> round(s.keywordScore),
          engagement |-> round(s.engagementScore),
          recency |-> round(s.recencyScore),
          clickbaitPenalty |-> round(s.clickbaitPenalty) ] ]

localsOf(rows, now) == [i \in 1..Len(rows) |-> signalsOf(rows[i], now)]

videoScoresOf(rows, locals) == [i \in 1..Len(rows) |-> scoreVideo(rows[i], locals[i])]

\* ----------------------------------------------------- channel aggregator
RECURSIVE channelMapFromOverwrites(_, _)
channelMapFromOverwrites(rows, map) ==
  IF rows = <<>> THEN map
  ELSE LET row == Head(rows)
           at == {k \in DOMAIN map : map[k].channelId = row.channel_id}
       IN  IF at = {}
           THEN channelMapFromOverwrites(Tail(rows),
                  Append(map, [channelId |-> row.channel_id, items |-> <<row>>]))
           ELSE LET k == CHOOSE k \in at : TRUE
                IN  channelMapFromOverwrites(Tail(rows),
                      [map EXCEPT ![k].items = <<row>>])

RECURSIVE channelMapAlwaysNew(_, _)
channelMapAlwaysNew(rows, map) ==
  IF rows = <<>> THEN map
  ELSE channelMapAlwaysNew(Tail(rows),
         Append(map, [channelId |-> Head(rows).channel_id, items |-> <<Head(rows)>>]))

\* Map<string, VideoRow[]> in insertion order: a sequence of entries
RECURSIVE channelMapFrom(_, _)
channelMapFrom(rows, map) ==
  IF rows = <<>> THEN map
  ELSE LET row == Head(rows)
           at == {k \in DOMAIN map : map[k].channelId = row.channel_id}
       IN  IF at = {}
           THEN channelMapFrom(Tail(rows),
                  Append(map, [channelId |-> row.channel_id, items |-> <<row>>]))
           ELSE LET k == CHOOSE k \in at : TRUE
                IN  channelMapFrom(Tail(rows),
                      [map EXCEPT ![k].items = Append(@, row)])

channelMapOf(rows) == channelMapFrom(rows, <<>>)

\* weights of the channel score, in twentieths: 0.7, 0.15, 0.15
W_CONSISTENCY == 14
W_SCALE == 3
W_CHANNEL_RECENCY == 3

scoresOfEveryChannel(videoScores, channelId) ==
  [i \in 1..Len(videoScores) |-> videoScores[i].score]

\* videoScores.filter((video) => video.channelId === channelId).map((s) => s.score)
RECURSIVE scoresOfChannel(_, _)
scoresOfChannel(videoScores, channelId) ==
  IF videoScores = <<>> THEN <<>>
  ELSE IF Head(videoScores).channelId = channelId
       THEN <<Head(videoScores).score>> \o scoresOfChannel(Tail(videoScores), channelId)
       ELSE scoresOfChannel(Tail(videoScores), channelId)

channelRawOfRounded(avg, subsScore, recencyScore) ==
  W_CONSISTENCY * MathRound(avg.num, avg.den) * avg.den * (Scale \div 100)
  + avg.den * (W_SCALE * subsScore + W_CHANNEL_RECENCY * recencyScore)

\* channelScore / 100 of an average avg = num/den, in units of
\* 1/(20 * Scale * den)
channelRawOf(avg, subsScore, recencyScore) ==
  W_CONSISTENCY * avg.num * (Scale \div 100)
  + avg.den * (W_SCALE * subsScore + W_CHANNEL_RECENCY * recencyScore)

\* the averages k + 1/2 whose double (avg / 100) * 100 lies below k + 1/2
HALF_BELOW == {14, 28, 56, 57}

\* round(avgVideoScore / 100) = Math.round((avg / 100) * 100) / 100
roundPercent(avg) ==
  IF \E k \in HALF_BELOW : 2 * avg.num = (2 * k + 1) * avg.den
  THEN (MathRound(avg.num, avg.den) - 1) * (Scale \div 100)
  ELSE MathRound(avg.num, avg.den) * (Scale \div 100)

scoreChannelFromDepth(entry, videoScores, now) ==
  LET items == entry.items
      own == SelectSeq(videoScores, LAMBDA v : v.channelId = entry.channelId)
      avgVideoScore == average([i \in DOMAIN own |-> own[i].signals.depth \div (Scale \div 100)])
      subs == items[1].subscriber_count
      subsScore == scoreSubscribers(subs)
      latest == latestDate([i \in 1..Len(items) |-> items[i].published_at])
      recencyScore == scoreRecency(latest, now)
      unit == 20 * Scale * avgVideoScore.den
      channelScore == clamp(channelRawOf(avgVideoScore, subsScore, recencyScore), 0, unit)
  IN  [ channelId |-> entry.channelId,
        title |-> items[1].channel_title,
        thumbnailUrl |-> items[1].thumbnail_url,
        subscriberCount |-> subs,
        avgVideoScore |-> MathRound(avgVideoScore.num, avgVideoScore.den),
        score |-> MathRound(channelScore, unit \div 100),
        signals |->
          [ consistency |-> roundPercent(avgVideoScore),
            scale |-> round(subsScore),
            recency |-> round(recencyScore) ] ]

scoreChannelLastSeen(entry, videoScores, now) ==
  LET items == entry.items
      avgVideoScore == average(scoresOfChannel(videoScores, entry.channelId))
      subs == items[Len(items)].subscriber_count
      subsScore == scoreSubscribers(subs)
      latest == latestDate([i \in 1..Len(items) |-> items[i].published_at])
      recencyScore == scoreRecency(latest, now)
      unit == 20 * Scale * avgVideoScore.den
      channelScore == clamp(channelRawOf(avgVideoScore, subsScore, recencyScore), 0, unit)
  IN  [ channelId |-> entry.channelId,
        title |-> items[Len(items)].channel_title,
        thumbnailUrl |-> items[Len(items)].thumbnail_url,
        subscriberCount |-> subs,
        avgVideoScore |-> MathRound(avgVideoScore.num, avgVideoScore.den),
        score |-> MathRound(channelScore, unit \div 100),
        signals |->
          [ consistency |-> roundPercent(avgVideoScore),
            scale |-> round(subsScore),
            recency |-> round(recencyScore) ] ]

\* the callback of Array.from(channelMap.entries()).map
scoreChannel(entry, videoScores, now) ==
  LET items == entry.items
      avgVideoScore == average(scoresOfChannel(videoScores, entry.channelId))
      subs == items[1].subscriber_count
      subsScore == scoreSubscribers(subs)
      latest == latestDate([i \in 1..Len(items) |-> items[i].published_at])
      recencyScore == scoreRecency(latest, now)
      unit == 20 * Scale * avgVideoScore.den
      channelScore == clamp(channelRawOf(avgVideoScore, subsScore, recencyScore), 0, unit)
  IN  [ channelId |-> entry.channelId,
        title |-> items[1].channel_title,
        thumbnailUrl |-> items[1].thumbnail_url,
        subscriberCount |-> subs,
        avgVideoScore |-> MathRound(avgVideoScore.num, avgVideoScore.den),
        score |-> MathRound(channelScore, unit \div 100),
        signals |->
          [ consistency |-> roundPercent(avgVideoScore),
            scale |-> round(subsScore),
            recency |-> round(recencyScore) ] ]

channelScoresOf(rows, videoScores, now) ==
  LET channelMap == channelMapOf(rows)
  IN  [k \in 1..Len(channelMap) |-> scoreChannel(channelMap[k], videoScores, now)]

\* ---------------------------------------------------- benchmark reporter
TOP_VIDEOS == 20
TOP_CHANNELS == 12

compareScoreAscending(a, b) == a.score - b.score

\* the comparator (a, b) => b.score - a.score
compareScore(a, b) == b.score - a.score

RECURSIVE sortByScoreTiesReversed(_)
sortByScoreTiesReversed(list) ==
  IF list = <<>> THEN <<>>
  ELSE LET n == Len(list)
           x == list[n]
           sorted == sortByScoreTiesReversed(SubSeq(list, 1, n - 1))
           after == {k \in 1..(n - 1) : compareScore(sorted[k], x) >= 0}
           pos == IF after = {} THEN n ELSE CHOOSE k \in after : \A j \in after : k <= j
       IN  SubSeq(sorted, 1, pos - 1) \o <<x>> \o SubSeq(sorted, pos, n - 1)

\* Array.prototype.sort with compareScore: stable
RECURSIVE sortByScore(_)
sortByScore(list) ==
  IF list = <<>> THEN <<>>
  ELSE LET n == Len(list)
           x == list[n]
           sorted == sortByScore(SubSeq(list, 1, n - 1))
           after == {k \in 1..(n - 1) : compareScore(sorted[k], x) > 0}
           pos == IF after = {} THEN n ELSE CHOOSE k \in after : \A j \in after : k <= j
       IN  SubSeq(sorted, 1, pos - 1) \o <<x>> \o SubSeq(sorted, pos, n - 1)

\* Array.prototype.slice(0, end)
slice(list, end) == SubSeq(list, 1, Min2(end, Len(list)))

\* Math.max(...values), -Infinity for no values
RECURSIVE maxOfNoFloor(_)
maxOfNoFloor(values) ==
  IF values = <<>> THEN Null ELSE Max2(Head(values), maxOfNoFloor(Tail(values)))

\* Math.max(0, ...values)
RECURSIVE maxOf(_)
maxOf(values) ==
  IF values = <<>> THEN 0 ELSE Max2(Head(values), maxOf(Tail(values)))

scoresOf(list) == [i \in 1..Len(list) |-> list[i].score]

benchmarksOfListed(videoScores, channelScores) ==
  LET avgV == average(scoresOf(slice(sortByScore(videoScores), TOP_VIDEOS)))
      avgC == average(scoresOf(slice(sortByScore(channelScores), TOP_CHANNELS)))
  IN  [ avgVideoScore |-> MathRound(avgV.num, avgV.den),
        avgChannelScore |-> MathRound(avgC.num, avgC.den),
        topVideoScore |-> maxOf(scoresOf(videoScores)),
        topChannelScore |-> maxOf(scoresOf(channelScores)) ]

benchmarksOf(videoScores, channelScores) ==
  LET avgV == average(scoresOf(videoScores))
      avgC == average(scoresOf(channelScores))
  IN  [ avgVideoScore |-> MathRound(avgV.num, avgV.den),
        avgChannelScore |-> MathRound(avgC.num, avgC.den),
        topVideoScore |-> maxOf(scoresOf(videoScores)),
        topChannelScore |-> maxOf(scoresOf(channelScores)) ]

reportOfUnsorted(videoScores, channelScores) ==
  [ benchmarks |-> benchmarksOf(videoScores, channelScores),
    videos |-> slice(videoScores, TOP_VIDEOS),
    channels |-> slice(channelScores, TOP_CHANNELS) ]

reportOfSameCut(videoScores, channelScores) ==
  [ benchmarks |-> benchmarksOf(videoScores, channelScores),
    videos |-> slice(sortByScore(videoScores), TOP_VIDEOS),
    channels |-> slice(sortByScore(channelScores), TOP_VIDEOS) ]

reportOf(videoScores, channelScores) ==
  [ benchmarks |-> benchmarksOf(videoScores, channelScores),
    videos |-> slice(sortByScore(videoScores), TOP_VIDEOS),
    channels |-> slice(sortByScore(channelScores), TOP_CHANNELS) ]

\* ------------------------------------------------------------------ inputs
MaxLen == 2
MaxRows == 22
MaxChannels == 14

ClockDays == {20000, 20100}

TitlePlain == <<"C", "u", "r", "s", "o", " ", "K", "o", "t", "l", "i", "n">>
TitleClick4 == <<"T", "R", "U", "C", "O", " ", "v", "i", "r", "a", "l", " ", "b", "r", "u", "t", "a", "l", " ", "h", "a", "c", "k">>
TitleClick1 == <<"H", "a", "c", "k", "a", "t", "h", "o", "n">>
TitleAuth2 == <<"B", "e", "n", "c", "h", "m", "a", "r", "k", "i", "n", "g">>
TitleAuth4 == <<"T", "e", "s", "t", "i", "n", "g", " ", "e", "v", "a", "l", " ", "p", "i", "p", "e", "l", "i", "n", "e", " ", "w", "o", "r", "k", "f", "l", "o", "w">>
TitleMixed == <<"R", "e", "f", "a", "c", "t", "o", "r", " ", "b", "r", "u", "t", "a", "l">>
DescClick2 == <<"x", "1", "0", "0">>
DescAuth1 == <<"c", "a", "s", "o", " ", "r", "e", "a", "l">>
DescClick4 == <<"b", "o", "m", "b", "a", " ", "l", "o", "c", "u", "r", "a", " ", "x", "1", "0", "0">>

TitleNo == <<"N", "o">>
DescCreeras == <<"c", "r", "e", "e", "r", "á", "s", " ", "E", "S", "T", "O">>
DescRepeat == <<"v", "i", "r", "a", "l", " ", "V", "I", "R", "A", "L", " ", "v", "i", "r", "a", "l">>

Titles == {TitlePlain, TitleClick4, TitleClick1, TitleAuth2, TitleAuth4, TitleMixed}
Descriptions == {NullStr, DescClick2, DescAuth1, DescClick4}
Dates == {Null, 17600, 19760, 20000, 20480}
Durations == {Null, 100, 600, 2400}
Views == {Null, 50, 4500, 100000}
Subscribers == {Null, 1000, 100000}

\* a row of the query of GET /api/analysis/authority (like_count and
\* comment_count are never read by computeAuthority)
VideoRow(id, channel, label, title, description, date, duration, views, subs) ==
  [ id |-> id,
    title |-> title,
    description |-> description,
    published_at |-> date,
    duration_seconds |-> duration,
    view_count |-> views,
    channel_id |-> channel,
    channel_title |-> label,
    subscriber_count |-> subs,
    thumbnail_url |-> label ]

\* every single-row batch
SingleRows ==
  { << VideoRow(1, 1, 1, t, d, p, l, v, s) >> :
      t \in Titles, d \in Descriptions, p \in Dates, l \in Durations,
      v \in Views, s \in Subscribers }

\* two rows that differ in their title (and id) only
TitlePairs ==
  { << VideoRow(1, 1, 1, TitlePlain, d, p, l, v, s),
       VideoRow(2, 1, 1, TitleClick4, d, p, l, v, s) >> :
      d \in Descriptions, p \in Dates, l \in Durations,
      v \in Views, s \in Subscribers }

\* single rows with no optional field but, possibly, a description
SparseRows ==
  { << VideoRow(1, 1, Null, t, d, Null, Null, Null, Null) >> :
      t \in Titles \cup {TitleNo},
      d \in Descriptions \cup {DescCreeras, DescRepeat} }

Catalog ==
  << VideoRow(0, 1, 1, TitleAuth4, DescAuth1, 20000, 2400, 100000, 1000),
     VideoRow(0, 1, 2, TitlePlain, NullStr, Null, Null, Null, Null),
     VideoRow(0, 2, 3, TitleClick4, DescClick2, 17600, 100, 50, 100000),
     VideoRow(0, 2, 4, TitleAuth2, NullStr, 19760, 600, 4500, Null),
     VideoRow(0, 3, 5, TitleMixed, DescClick4, 20000, 2400, 4500, 1000),
     VideoRow(0, 1, 6, TitlePlain, DescAuth1, 19760, 600, 50, 1000),
     VideoRow(0, 3, 7, TitleClick1, NullStr, 20480, 100, 4500, 100000),
     VideoRow(0, 2, 8, TitleAuth2, DescAuth1, 17600, 2400, 100000, 100000) >>

\* every batch of at most MaxLen catalog rows
RECURSIVE CatalogSeqs(_)
CatalogSeqs(n) ==
  IF n = 0 THEN {<<>>}
  ELSE LET shorter == CatalogSeqs(n - 1)
       IN  shorter \cup
           { Append(q, [Catalog[k] EXCEPT !.id = Len(q) + 1]) :
               q \in {q \in shorter : Len(q) = n - 1}, k \in DOMAIN Catalog }

\* long batches: n catalog rows taken cyclically, spread over m channels
CycleRows(n, start, step, m) ==
  [ i \in 1..n |->
      [ Catalog[((start + (i - 1) * step) % Len(Catalog)) + 1]
          EXCEPT !.id = i, !.channel_id = ((i - 1) % m) + 1 ] ]

LongBatches ==
  { CycleRows(n, start, step, m) :
      n \in 0..MaxRows, start \in 0..(Len(Catalog) - 1), step \in {1, 3},
      m \in {1, 2, MaxChannels - 1, MaxChannels} }

\* two channels with the same publish date and subscribers, their rows
\* differing in title, duration and so in depth and penalty
TwinChannels ==
  { << VideoRow(1, 1, 1, TitlePlain, NullStr, p, l, v, s),
       VideoRow(2, 2, 2, TitleClick4, NullStr, p, 600, v, s) >> :
      p \in Dates, l \in {Null, 100}, v \in Views, s \in Subscribers }
  \cup
  { << VideoRow(1, 1, 1, TitlePlain, NullStr, p, l, v, s),
       VideoRow(2, 1, 1, TitleAuth2, NullStr, p, 2400, v, s),
       VideoRow(3, 2, 2, TitleAuth2, NullStr, p, 2400, v, s),
       VideoRow(4, 2, 2, TitleClick4, NullStr, p, 600, v, s) >> :
      p \in Dates, l \in {Null, 100}, v \in Views, s \in Subscribers }

Batches ==
  SingleRows \cup TitlePairs \cup SparseRows \cup CatalogSeqs(MaxLen) \cup LongBatches
    \cup TwinChannels

\* arguments of the calls of one extractor on its own
MaxCalls == 2

ProbeDurations == {Null, -60, 0, 1, 299, 300, 719, 720, 1199, 1200, 2099, 2100, 3000}
ProbeViews == {Null, 0, -50, -4500, 50, 4500}
ProbeViewSubscribers == {Null, 0, -5, 1000, 5000}
ProbeDates == {Null, 17600, 19760, 19900, 20000, 20480}
ProbeSubscribers == {Null, 0, -5, 1, 1000, 100000, 999998, 999999, 1000000, 2000000}

\* IEEE doubles.  The code evaluates raw and channelScore in doubles, the
\* model exactly; the two round to the same integer unless the value lies
\* on (or within 1/1000 of) a rounding boundary k + 1/2, where the last bit
\* of the double decides.  The model draws the batches that have no score
\* on such a boundary.
offBoundary(num, den) ==
  LET r == (2 * num) % (2 * den)
      d == IF r > den THEN r - den ELSE den - r
  IN  d * 500 > den

RepresentableBatch(batch, locals, vs, clock) ==
  LET channelMap == channelMapOf(batch)
  IN  /\ \A i \in DOMAIN batch :
           offBoundary(clamp(rawOf(locals[i]), 0, 20 * Scale) * 100, 20 * Scale)
      /\ \A k \in DOMAIN channelMap :
           LET items == channelMap[k].items
               avg == average(scoresOfChannel(vs, channelMap[k].channelId))
               raw == channelRawOf(avg, scoreSubscribers(items[1].subscriber_count),
                        scoreRecency(latestDate([i \in 1..Len(items) |-> items[i].published_at]), clock))
               unit == 20 * Scale * avg.den
           IN  offBoundary(clamp(raw, 0, unit), unit \div 100)

\* ----------------------------------------------------------- state machine
\* rows: the rows the handler read and passes to computeAuthority;
\* signals: the locals depthScore .. recencyScore of the rows.map callback,
\* one record per row; videoScores and channelScores: the two arrays before
\* they are sorted; calls: the calls made of one extractor on its own, each
\* with its arguments a, b and its result
VARIABLES pc, now, rows, signals, videoScores, channelScores, report, calls

vars == <<pc, now, rows, signals, videoScores, channelScores, report, calls>>

engine == <<pc, now, rows, signals, videoScores, channelScores, report>>

Init ==
  /\ pc = "idle"
  /\ now \in ClockDays
  /\ rows = <<>>
  /\ signals = <<>>
  /\ videoScores = <<>>
  /\ channelScores = <<>>
  /\ report = [ benchmarks |-> [ avgVideoScore |-> 0, avgChannelScore |-> 0,
                                 topVideoScore |-> 0, topChannelScore |-> 0 ],
                videos |-> <<>>, channels |-> <<>> ]
  /\ calls = <<>>

\* the handler of GET /api/analysis/authority has read the rows of a run
Receive(batch) ==
  /\ pc = "idle"
  /\ pc' = "called"
  /\ rows' = batch
  /\ UNCHANGED <<now, signals, videoScores, channelScores, report, calls>>

ComputeAuthoritySplicesRows ==
  /\ pc = "called"
  /\ pc' = "done"
  /\ signals' = localsOf(rows, now)
  /\ videoScores' = videoScoresOf(rows, signals')
  /\ RepresentableBatch(rows, signals', videoScores', now)
  /\ channelScores' = channelScoresOf(rows, videoScores', now)
  /\ report' = reportOf(videoScores', channelScores')
  /\ rows' = slice(rows, TOP_VIDEOS)
  /\ UNCHANGED <<now, calls>>

\* one call computeAuthority(rows), with the clock reading `now`
ComputeAuthority ==
  /\ pc = "called"
  /\ pc' = "done"
  /\ signals' = localsOf(rows, now)
  /\ videoScores' = videoScoresOf(rows, signals')
  /\ RepresentableBatch(rows, signals', videoScores', now)
  /\ channelScores' = channelScoresOf(rows, videoScores', now)
  /\ report' = reportOf(videoScores', channelScores')
  /\ UNCHANGED <<now, rows, calls>>

Next ==
  \/ \E batch \in Batches : Receive(batch)
  \/ ComputeAuthority

Spec == Init /\ [][Next]_vars

\* the extractors called on their own, each a pure function of its arguments
\* (and of the clock, for scoreRecency)
Called(fn, a, b, result) ==
  /\ Len(calls) < MaxCalls
  /\ \A c \in DOMAIN calls : calls[c].fn = fn
  /\ calls' = Append(calls, [fn |-> fn, a |-> a, b |-> b, result |-> result])
  /\ UNCHANGED engine

CallScoreDepth(duration) ==
  Called("scoreDepth", duration, Null, scoreDepth(duration))

CallScoreRecency(dateValue) ==
  Called("scoreRecency", dateValue, Null, scoreRecency(dateValue, now))

CallScoreEngagement(views, subs) ==
  Called("scoreEngagement", views, subs, scoreEngagement(views, subs))

CallScoreSubscribers(subs) ==
  Called("scoreSubscribers", subs, Null, scoreSubscribers(subs))

NextExtract ==
  \/ \E duration \in ProbeDurations : CallScoreDepth(duration)
  \/ \E dateValue \in ProbeDates : CallScoreRecency(dateValue)
  \/ \E views \in ProbeViews, subs \in ProbeViewSubscribers : CallScoreEngagement(views, subs)
  \/ \E subs \in ProbeSubscribers : CallScoreSubscribers(subs)

SpecExtract == Init /\ [][NextExtract]_vars

\* ------------------------------------------------------------- properties
\* s is the integer nearest to num/den (den > 0), halves rounded up
IsRoundOf(s, num, den) ==
  /\ 2 * s * den - den <= 2 * num
  /\ 2 * num < 2 * s * den + den

Range(f) == {f[i] : i \in DOMAIN f}

Done == pc = "done"

\* C1: after every call, every ScoredVideo.score and every ScoredChannel.score,
\* in the full arrays and in the report, is an integer between 0 and 100.
C1_ScoresInRange ==
  Done =>
    /\ \A i \in DOMAIN videoScores : videoScores[i].score \in 0..100
    /\ \A k \in DOMAIN channelScores : channelScores[k].score \in 0..100
    /\ \A i \in DOMAIN report.videos : report.videos[i].score \in 0..100
    /\ \A k \in DOMAIN report.channels : report.channels[k].score \in 0..100

\* a call in which a raw above 1 and a raw below 0 were both clamped
C1_Witness ==
  /\ Done
  /\ \E i \in DOMAIN signals :
       rawOf(signals[i]) > 20 * Scale /\ videoScores[i].score = 100
  /\ \E i \in DOMAIN signals :
       rawOf(signals[i]) < 0 /\ videoScores[i].score = 0
  /\ channelScores # <<>>

\* number of distinct lexicon entries that occur in a lower-cased text
Hits(text, keywords) ==
  Cardinality({k \in DOMAIN keywords : includes(text, keywords[k])})

\* keyword density min(h, 4) / 4 in units of 1/Scale
Density(text, keywords) == (Min2(Hits(text, keywords), 4) * Scale) \div 4

\* 20 * (0.35 d + 0.25 m + 0.2 e + 0.2 r - 0.15 p)
Raw20(d, m, e, r, p) == 7 * d + 5 * m + 4 * e + 4 * r - 3 * p

\* s = round(100 * clamp(raw, 0, 1)) for raw = raw20 / (20 * Scale)
IsScoreOfRaw(s, raw20) ==
  IF raw20 <= 0 THEN s = 0
  ELSE IF raw20 >= 20 * Scale THEN s = 100
  ELSE IsRoundOf(s, 5 * raw20, Scale)

\* C2 as stated: the penalty that enters raw with weight 0.15 is the clickbait
\* keyword density itself (1 when 4 or more clickbait terms match).
C2_PenaltyIsDensity ==
  Done =>
    \A i \in DOMAIN rows :
      LET s == signals[i]
      IN  IsScoreOfRaw(videoScores[i].score,
            Raw20(s.depthScore, s.keywordScore, s.engagementScore, s.recencyScore,
                  Density(textOf(rows[i]), CLICKBAIT_KEYWORDS)))

\* C2 amended: score = round(100 * clamp(raw, 0, 1)) with raw = 0.35 depth +
\* 0.25 methodology + 0.20 engagement + 0.20 recency - 0.15 clickbaitPenalty,
\* where clickbaitPenalty is 0.6 times the clickbait keyword density (a value
\* in [0, 0.6], 0.6 when 4 or more clickbait terms match), so that full
\* clickbait density lowers raw by 0.09.
C2_ScoreFormula ==
  Done =>
    \A i \in DOMAIN rows :
      LET s == signals[i]
          text == textOf(rows[i])
          density == Density(text, CLICKBAIT_KEYWORDS)
      IN  /\ s.depthScore = scoreDepth(rows[i].duration_seconds)
          /\ s.keywordScore = Density(text, AUTHORITY_KEYWORDS)
          /\ s.engagementScore = scoreEngagement(rows[i].view_count, rows[i].subscriber_count)
          /\ s.recencyScore = scoreRecency(rows[i].published_at, now)
          /\ 10 * s.clickbaitPenalty = 6 * density
          /\ s.clickbaitPenalty \in 0..((6 * Scale) \div 10)
          /\ (Hits(text, CLICKBAIT_KEYWORDS) >= 4 =>
                Raw20(s.depthScore, s.keywordScore, s.engagementScore, s.recencyScore, 0)
                  - rawOf(s) = (9 * 20 * Scale) \div 100)
          /\ IsScoreOfRaw(videoScores[i].score,
               Raw20(s.depthScore, s.keywordScore, s.engagementScore, s.recencyScore,
                     s.clickbaitPenalty))

\* a scored row with 4 or more clickbait terms whose raw is strictly inside
\* (0, 1), so that neither clamp hides the penalty
C2_Witness ==
  /\ Done
  /\ \E i \in DOMAIN rows :
       /\ Hits(textOf(rows[i]), CLICKBAIT_KEYWORDS) >= 4
       /\ rawOf(signals[i]) > 0
       /\ rawOf(signals[i]) < 20 * Scale
       /\ videoScores[i].score \in 1..99

\* two rows that are identical except for their title (and their id)
SameExceptTitle(a, b) ==
  /\ a.id # b.id
  /\ [a EXCEPT !.id = 0, !.title = <<>>] = [b EXCEPT !.id = 0, !.title = <<>>]

\* C3: of two rows identical except that the title of one contains 4 or more
\* distinct clickbait terms (the other row has none), neither containing an
\* authority term, the clickbait-titled one scores strictly lower.
C3_ClickbaitStrictlyLower ==
  Done =>
    \A i, j \in DOMAIN rows :
      ( /\ SameExceptTitle(rows[i], rows[j])
        /\ Hits(toLowerCase(rows[i].title), CLICKBAIT_KEYWORDS) >= 4
        /\ Hits(textOf(rows[j]), CLICKBAIT_KEYWORDS) = 0
        /\ Hits(textOf(rows[i]), AUTHORITY_KEYWORDS) = 0
        /\ Hits(textOf(rows[j]), AUTHORITY_KEYWORDS) = 0 )
      => videoScores[i].score < videoScores[j].score

\* the same comparison for rows that are not published after the clock
\* reading, where scoreRecency stays within [0,1]
C3_LowerUnlessFuture ==
  Done =>
    \A i, j \in DOMAIN rows :
      ( /\ SameExceptTitle(rows[i], rows[j])
        /\ Hits(toLowerCase(rows[i].title), CLICKBAIT_KEYWORDS) >= 4
        /\ Hits(textOf(rows[j]), CLICKBAIT_KEYWORDS) = 0
        /\ Hits(textOf(rows[i]), AUTHORITY_KEYWORDS) = 0
        /\ Hits(textOf(rows[j]), AUTHORITY_KEYWORDS) = 0
        /\ (rows[i].published_at = Null \/ rows[i].published_at <= now) )
      => videoScores[i].score < videoScores[j].score

\* the channelIds of a batch
ChannelIds(batch) == {batch[i].channel_id : i \in DOMAIN batch}

\* m is the integer nearest to the mean of the scores of a list (0 if empty)
IsRoundedMean(m, list) ==
  IF list = <<>> THEN m = 0
  ELSE IsRoundOf(m, SumSeq([i \in DOMAIN list |-> list[i].score]), Len(list))

\* t is the largest score of a list (0 if empty)
IsTop(t, list) ==
  IF list = <<>> THEN t = 0
  ELSE /\ \E i \in DOMAIN list : list[i].score = t
       /\ \A i \in DOMAIN list : list[i].score <= t

\* C4: the four benchmarks are the rounded mean and the maximum of the scores
\* of all input videos and of all channels, not of the truncated lists of the
\* report; each is 0 when its set is empty.
C4_BenchmarksOverFullSets ==
  Done =>
    /\ Len(videoScores) = Len(rows)
    /\ Len(channelScores) = Cardinality(ChannelIds(rows))
    /\ IsRoundedMean(report.benchmarks.avgVideoScore, videoScores)
    /\ IsTop(report.benchmarks.topVideoScore, videoScores)
    /\ IsRoundedMean(report.benchmarks.avgChannelScore, channelScores)
    /\ IsTop(report.benchmarks.topChannelScore, channelScores)

\* a call with more than 20 videos and more than 12 channels in which both
\* averages differ from the averages of the truncated lists
C4_Witness ==
  /\ Done
  /\ Len(videoScores) > TOP_VIDEOS
  /\ Len(channelScores) > TOP_CHANNELS
  /\ ~IsRoundedMean(report.benchmarks.avgVideoScore, report.videos)
  /\ ~IsRoundedMean(report.benchmarks.avgChannelScore, report.channels)

\* the entries of a list are in non-increasing score order
NonIncreasing(list) ==
  \A i, j \in DOMAIN list : i < j => list[i].score >= list[j].score

\* C5: report.videos has min(n, 20) entries in non-increasing score order,
\* each the ScoredVideo of a different input row, and every input video left
\* out scores no higher than any listed one.
C5_TopVideos ==
  Done =>
    LET listed == {report.videos[i].id : i \in DOMAIN report.videos}
    IN  /\ Len(report.videos) = Min2(Len(rows), TOP_VIDEOS)
        /\ NonIncreasing(report.videos)
        /\ \A i \in DOMAIN report.videos : report.videos[i] \in Range(videoScores)
        /\ Cardinality(listed) = Len(report.videos)
        /\ \A i \in DOMAIN videoScores :
             videoScores[i].id \notin listed =>
               \A j \in DOMAIN report.videos :
                 videoScores[i].score <= report.videos[j].score

\* more than 20 input videos, one left out scoring strictly below the last
\* listed one, and the input not already in score order
C5_Witness ==
  /\ Done
  /\ Len(rows) > TOP_VIDEOS
  /\ ~NonIncreasing(videoScores)
  /\ \E i \in DOMAIN videoScores :
       /\ \A j \in DOMAIN report.videos : report.videos[j].id # videoScores[i].id
       /\ videoScores[i].score < report.videos[TOP_VIDEOS].score

\* C6: report.channels has min(k, 12) entries for k distinct channelIds, in
\* non-increasing score order, and every channel left out scores no higher
\* than any listed one.
C6_TopChannels ==
  Done =>
    LET listed == {report.channels[k].channelId : k \in DOMAIN report.channels}
    IN  /\ Len(report.channels) = Min2(Cardinality(ChannelIds(rows)), TOP_CHANNELS)
        /\ NonIncreasing(report.channels)
        /\ \A k \in DOMAIN report.channels : report.channels[k] \in Range(channelScores)
        /\ Cardinality(listed) = Len(report.channels)
        /\ \A k \in DOMAIN channelScores :
             channelScores[k].channelId \notin listed =>
               \A j \in DOMAIN report.channels :
                 channelScores[k].score <= report.channels[j].score

\* more than 12 channels, one left out scoring strictly below the last
\* listed one
C6_Witness ==
  /\ Done
  /\ Cardinality(ChannelIds(rows)) > TOP_CHANNELS
  /\ ~NonIncreasing(channelScores)
  /\ \E k \in DOMAIN channelScores :
       /\ \A j \in DOMAIN report.channels :
            report.channels[j].channelId # channelScores[k].channelId
       /\ channelScores[k].score < report.channels[TOP_CHANNELS].score

EmptyReport ==
  [ benchmarks |-> [ avgVideoScore |-> 0, avgChannelScore |-> 0,
                     topVideoScore |-> 0, topChannelScore |-> 0 ],
    videos |-> <<>>, channels |-> <<>> ]

\* C7: computeAuthority on an empty row list returns the four benchmarks 0,
\* videos = [] and channels = [].
C7_EmptyInput ==
  (Done /\ rows = <<>>) => report = EmptyReport

\* a call on the empty list has returned
C7_Witness == Done /\ rows = <<>> /\ videoScores = <<>> /\ channelScores = <<>>

\* C8: there is exactly one ScoredChannel per distinct channelId of the input
\* rows: no channelId appears twice and every ScoredChannel's channelId is
\* the channelId of some input row.
C8_OneChannelPerId ==
  Done =>
    /\ \A k, l \in DOMAIN channelScores :
         channelScores[k].channelId = channelScores[l].channelId => k = l
    /\ {channelScores[k].channelId : k \in DOMAIN channelScores} = ChannelIds(rows)

\* a batch with several channels, one of them with several rows, the rows of
\* a channel not adjacent in the input
C8_Witness ==
  /\ Done
  /\ Cardinality(ChannelIds(rows)) >= 2
  /\ \E i, j, l \in DOMAIN rows :
       /\ i < j /\ j < l
       /\ rows[i].channel_id = rows[l].channel_id
       /\ rows[j].channel_id # rows[i].channel_id

\* the ScoredVideos of a channel
VideosOf(channelId) == SelectSeq(videoScores, LAMBDA v : v.channelId = channelId)

\* C9: each ScoredChannel.avgVideoScore is the mean of the scores of exactly
\* the ScoredVideos of that channelId, rounded to the nearest integer (80, 60,
\* 40 give 60), and lies in [0,100].
C9_ChannelAverage ==
  Done =>
    /\ \A k \in DOMAIN channelScores :
         /\ VideosOf(channelScores[k].channelId) # <<>>
         /\ IsRoundedMean(channelScores[k].avgVideoScore,
                          VideosOf(channelScores[k].channelId))
         /\ channelScores[k].avgVideoScore \in 0..100
    /\ LET avg == average(<<80, 60, 40>>) IN MathRound(avg.num, avg.den) = 60

\* a channel of three or more videos whose mean is not an integer, in a batch
\* with other channels
C9_Witness ==
  /\ Done
  /\ Cardinality(ChannelIds(rows)) >= 2
  /\ \E k \in DOMAIN channelScores :
       LET own == VideosOf(channelScores[k].channelId)
       IN  /\ Len(own) >= 3
           /\ SumSeq([i \in DOMAIN own |-> own[i].score]) % Len(own) # 0

\* the first row of a channel, and the latest known publish date of a channel
FirstRowOf(channelId) ==
  rows[CHOOSE i \in DOMAIN rows :
         /\ rows[i].channel_id = channelId
         /\ \A j \in DOMAIN rows : rows[j].channel_id = channelId => i <= j]

LatestOf(channelId) ==
  LET known == {rows[i].published_at : i \in {j \in DOMAIN rows :
                   rows[j].channel_id = channelId /\ rows[j].published_at # Null}}
  IN  IF known = {} THEN Null ELSE CHOOSE d \in known : \A e \in known : e <= d

\* s = round(100 * clamp(raw, 0, 1)) for raw = num / (20 * Scale * den)
IsScoreOfRatio(s, num, den) ==
  IF num <= 0 THEN s = 0
  ELSE IF num >= 20 * Scale * den THEN s = 100
  ELSE IsRoundOf(s, num, (20 * Scale * den) \div 100)

\* C10 as stated: the channel score is computed from the rounded
\* avgVideoScore that the ScoredChannel reports.
C10_FromRoundedAverage ==
  Done =>
    \A k \in DOMAIN channelScores :
      LET c == channelScores[k]
          scale == scoreSubscribers(FirstRowOf(c.channelId).subscriber_count)
          recency == scoreRecency(LatestOf(c.channelId), now)
      IN  IsScoreOfRatio(c.score,
            14 * c.avgVideoScore * (Scale \div 100) + 3 * scale + 3 * recency, 1)

\* C10 amended: each ScoredChannel.score equals round(100 * clamp(0.70 *
\* (avg / 100) + 0.15 * scale + 0.15 * recency, 0, 1)), where avg is the
\* unrounded mean of the channel's video scores (the reported avgVideoScore
\* is that mean rounded), scale is scoreSubscribers of the subscriberCount of
\* the channel's first row and recency is scoreRecency of the channel's
\* latest publishedAt.
C10_ChannelScoreFormula ==
  Done =>
    \A k \in DOMAIN channelScores :
      LET c == channelScores[k]
          own == VideosOf(c.channelId)
          sum == SumSeq([i \in DOMAIN own |-> own[i].score])
          n == Len(own)
          scale == scoreSubscribers(FirstRowOf(c.channelId).subscriber_count)
          recency == scoreRecency(LatestOf(c.channelId), now)
      IN  /\ n > 0
          /\ IsRoundOf(c.avgVideoScore, sum, n)
          /\ IsScoreOfRatio(c.score,
               14 * sum * (Scale \div 100) + n * (3 * scale + 3 * recency), n)

\* a channel whose mean video score is not an integer and whose score differs
\* from the one the rounded average would give
C10_Witness ==
  /\ Done
  /\ \E k \in DOMAIN channelScores :
       LET c == channelScores[k]
           own == VideosOf(c.channelId)
           scale == scoreSubscribers(FirstRowOf(c.channelId).subscriber_count)
           recency == scoreRecency(LatestOf(c.channelId), now)
       IN  /\ SumSeq([i \in DOMAIN own |-> own[i].score]) % Len(own) # 0
           /\ ~IsScoreOfRatio(c.score,
                 14 * c.avgVideoScore * (Scale \div 100) + 3 * scale + 3 * recency, 1)

\* a row with every optional field absent: only id, channel_id and title
IsBare(row) ==
  /\ row.description = NullStr
  /\ row.published_at = Null
  /\ row.duration_seconds = Null
  /\ row.view_count = Null
  /\ row.subscriber_count = Null
  /\ row.channel_title = Null
  /\ row.thumbnail_url = Null

\* C11: a row with every optional field absent is scored with the defaults
\* depth 0.2, engagement 0.2, recency 0.4 and the keyword densities of the
\* title alone; its score is in [0,100], and is exactly 19 when the title
\* contains no lexicon term.
C11_BareRowScored ==
  Done =>
    \A i \in DOMAIN rows :
      IsBare(rows[i]) =>
        LET s == signals[i]
            title == toLowerCase(rows[i].title) \o <<" ">>
        IN  /\ s.depthScore = Scale \div 5
            /\ s.engagementScore = Scale \div 5
            /\ s.recencyScore = (4 * Scale) \div 10
            /\ s.keywordScore = Density(title, AUTHORITY_KEYWORDS)
            /\ 10 * s.clickbaitPenalty = 6 * Density(title, CLICKBAIT_KEYWORDS)
            /\ videoScores[i].score \in 0..100
            /\ ( ( Hits(title, AUTHORITY_KEYWORDS) = 0
                   /\ Hits(title, CLICKBAIT_KEYWORDS) = 0 )
                 => videoScores[i].score = 19 )

\* a bare row without lexicon terms, and one with lexicon terms, were scored
C11_Witness ==
  /\ Done
  /\ \E i \in DOMAIN rows :
       /\ IsBare(rows[i])
       /\ Hits(textOf(rows[i]), AUTHORITY_KEYWORDS) = 0
       /\ Hits(textOf(rows[i]), CLICKBAIT_KEYWORDS) = 0
       /\ videoScores[i].score = 19
       /\ report.videos[1].score = 19

UnitInterval == 0..Scale

\* C12: every extractor result, hence every value of a video's
\* SignalBreakdown and of a channel's {consistency, scale, recency}, lies in
\* the closed interval [0,1].
C12_SignalsInUnitInterval ==
  Done =>
    /\ \A i \in DOMAIN signals :
         /\ signals[i].depthScore \in UnitInterval
         /\ signals[i].keywordScore \in UnitInterval
         /\ signals[i].clickbaitPenalty \in UnitInterval
         /\ signals[i].engagementScore \in UnitInterval
         /\ signals[i].recencyScore \in UnitInterval
         /\ \A f \in DOMAIN videoScores[i].signals :
              videoScores[i].signals[f] \in UnitInterval
    /\ \A k \in DOMAIN channelScores :
         \A f \in DOMAIN channelScores[k].signals :
           channelScores[k].signals[f] \in UnitInterval

\* the same for the rows that are not published after the clock reading
C12_UnitIntervalUnlessFuture ==
  (Done /\ \A i \in DOMAIN rows : rows[i].published_at <= now) =>
    /\ \A i \in DOMAIN signals :
         /\ \A f \in DOMAIN signals[i] : signals[i][f] \in UnitInterval
         /\ \A f \in DOMAIN videoScores[i].signals :
              videoScores[i].signals[f] \in UnitInterval
    /\ \A k \in DOMAIN channelScores :
         \A f \in DOMAIN channelScores[k].signals :
           channelScores[k].signals[f] \in UnitInterval

\* a numeric field that is present but negative
Malformed(value) == value # Null /\ value < 0

\* the signal every numeric extractor gives for an absent value
UNKNOWN_NUMERIC == Scale \div 5

\* C14: a negative durationSeconds, viewCount or subscriberCount gives the
\* same depth, engagement and scale signal (0.2) as an absent value, and
\* never a non-numeric one.
C14_MalformedAsUnknown ==
  \A c \in DOMAIN calls :
    /\ calls[c].result # NaN
    /\ (calls[c].fn = "scoreDepth" /\ Malformed(calls[c].a))
         => calls[c].result = UNKNOWN_NUMERIC
    /\ (calls[c].fn = "scoreEngagement" /\ Malformed(calls[c].a))
         => calls[c].result = UNKNOWN_NUMERIC
    /\ (calls[c].fn = "scoreSubscribers" /\ Malformed(calls[c].a))
         => calls[c].result = UNKNOWN_NUMERIC

\* the calls of one extractor, in the order they were made
CallsOf(fn) == {c \in DOMAIN calls : calls[c].fn = fn}

\* C15: scoreDepth maps unknown, 0 and d < 300 to 0.2, 300 <= d < 720 to 0.45,
\* 720 <= d < 1200 to 0.7, 1200 <= d < 2100 to 0.9 and d >= 2100 to 1.0 (299
\* gives 0.2, 300 gives 0.45, 2099 gives 0.9, 2100 gives 1.0), and is
\* non-decreasing in durationSeconds.
C15_DepthBuckets ==
  /\ \A c \in CallsOf("scoreDepth") :
       LET d == calls[c].a
           r == calls[c].result
       IN  /\ (d = Null \/ d = 0 \/ d < 300) <=> (100 * r = 20 * Scale)
           /\ (d # Null /\ 300 <= d /\ d < 720) <=> (100 * r = 45 * Scale)
           /\ (d # Null /\ 720 <= d /\ d < 1200) <=> (100 * r = 70 * Scale)
           /\ (d # Null /\ 1200 <= d /\ d < 2100) <=> (100 * r = 90 * Scale)
           /\ (d # Null /\ 2100 <= d) <=> (r = Scale)
           /\ d = 299 => 100 * r = 20 * Scale
           /\ d = 300 => 100 * r = 45 * Scale
           /\ d = 2099 => 100 * r = 90 * Scale
           /\ d = 2100 => r = Scale
  /\ \A c1, c2 \in CallsOf("scoreDepth") :
       (calls[c1].a # Null /\ calls[c2].a # Null /\ calls[c1].a <= calls[c2].a)
         => calls[c1].result <= calls[c2].result

\* scoreDepth was called on both sides of the first bucket boundary
C15_Witness ==
  \E c1, c2 \in CallsOf("scoreDepth") :
    /\ calls[c1].a = 299 /\ 100 * calls[c1].result = 20 * Scale
    /\ calls[c2].a = 300 /\ 100 * calls[c2].result = 45 * Scale

\* C17: scoreEngagement returns 0.2 when viewCount is unknown or zero, whatever
\* subscriberCount is; for a positive viewCount it normalises by a positive
\* subscriberCount (more subscribers, lower signal), and an unknown or zero
\* subscriberCount gives exactly the signal of subscriberCount = 5000.
C17_EngagementFloor ==
  /\ \A c \in CallsOf("scoreEngagement") :
       (calls[c].a = Null \/ calls[c].a = 0) => 5 * calls[c].result = Scale
  /\ \A c1, c2 \in CallsOf("scoreEngagement") :
       (calls[c1].a # Null /\ calls[c1].a > 0 /\ calls[c2].a = calls[c1].a) =>
         /\ ((calls[c1].b = Null \/ calls[c1].b = 0) /\ calls[c2].b = 5000)
              => calls[c1].result = calls[c2].result
         /\ (calls[c1].b # Null /\ 0 < calls[c1].b /\ calls[c1].b < calls[c2].b)
              => calls[c1].result > calls[c2].result

\* the same positive viewCount was scored with unknown subscribers and with
\* 5000 subscribers
C17_Witness ==
  \E c1, c2 \in CallsOf("scoreEngagement") :
    /\ calls[c1].a = 4500 /\ calls[c1].b = Null
    /\ calls[c2].a = 4500 /\ calls[c2].b = 5000
    /\ calls[c1].result = calls[c2].result
    /\ 2 * calls[c1].result = Scale

\* C18: scoreRecency returns 0.4 for an unknown publishedAt; of two known
\* dates at the same clock reading the newer one gets the strictly larger
\* signal; the signal is never negative.
C18_RecencyDecreasing ==
  /\ \A c \in CallsOf("scoreRecency") :
       /\ calls[c].a = Null => 10 * calls[c].result = 4 * Scale
       /\ calls[c].result >= 0
  /\ \A c1, c2 \in CallsOf("scoreRecency") :
       (calls[c1].a # Null /\ calls[c2].a # Null /\ calls[c1].a < calls[c2].a)
         => calls[c1].result < calls[c2].result

\* two known dates less than one half-life apart were scored
C18_Witness ==
  \E c1, c2 \in CallsOf("scoreRecency") :
    /\ calls[c1].a # Null /\ calls[c2].a # Null
    /\ calls[c1].a < calls[c2].a
    /\ calls[c2].a - calls[c1].a < halfLife
    /\ calls[c2].a <= now
    /\ calls[c1].result < calls[c2].result

\* C19: scoreSubscribers returns 0.2 for an unknown or zero subscriberCount;
\* for a positive one the result is in [0,1], equals 1 exactly when
\* subs + 1 >= 1,000,000 and is below 1 otherwise.
C19_ScaleSaturation ==
  \A c \in CallsOf("scoreSubscribers") :
    LET subs == calls[c].a
        r == calls[c].result
    IN  /\ (subs = Null \/ subs = 0) => 5 * r = Scale
        /\ (subs # Null /\ subs > 0) =>
             /\ r \in 0..Scale
             /\ (r = Scale) <=> (subs + 1 >= 1000000)
        /\ subs = 1000 => r \in 50000..50010

\* scoreSubscribers was called just below and just at the saturation point
C19_Witness ==
  \E c1, c2 \in CallsOf("scoreSubscribers") :
    /\ calls[c1].a = 999998 /\ calls[c1].result < Scale
    /\ calls[c2].a = 999999 /\ calls[c2].result = Scale

\* keyword occurs in text as a contiguous run of characters
Occurs(keyword, text) ==
  \E i \in 1..(Len(text) - Len(keyword) + 1) :
    SubSeq(text, i, i + Len(keyword) - 1) = keyword

\* the distinct entries of a lexicon that occur in a text
Found(text, keywords) == {w \in Range(keywords) : Occurs(w, text)}

\* the number of places where an entry of a lexicon occurs in a text
Occurrences(text, keywords) ==
  Cardinality({p \in Range(keywords) \X (1..Len(text)) :
                 /\ p[2] + Len(p[1]) - 1 <= Len(text)
                 /\ SubSeq(text, p[2], p[2] + Len(p[1]) - 1) = p[1]})

\* the lower-cased 'title + space + description' of a row
Lowered(row) ==
  LET title == IF row.title = NullStr THEN <<>> ELSE row.title
      description == IF row.description = NullStr THEN <<>> ELSE row.description
      text == title \o <<" ">> \o description
  IN  [i \in DOMAIN text |->
         IF text[i] \in DOMAIN LowerCaseOf THEN LowerCaseOf[text[i]] ELSE text[i]]

QUARTERS == {(q * Scale) \div 4 : q \in 0..4}

\* C16: the keyword density of a row is min(h, 4)/4 for h the number of
\* distinct lexicon entries occurring as substrings of the lower-cased
\* 'title + space + description' (repeats count once, occurrences inside a
\* longer word and in upper case count); it is one of 0, 0.25, 0.5, 0.75, 1.
C16_KeywordDensity ==
  Done =>
    \A i \in DOMAIN rows :
      LET text == Lowered(rows[i])
          h == Cardinality(Found(text, AUTHORITY_KEYWORDS))
          c == Cardinality(Found(text, CLICKBAIT_KEYWORDS))
      IN  /\ 4 * signals[i].keywordScore = Min2(h, 4) * Scale
          /\ signals[i].keywordScore \in QUARTERS
          /\ 40 * signals[i].clickbaitPenalty = CLICKBAIT_FACTOR * Min2(c, 4) * Scale
          /\ 4 * videoScores[i].signals.methodology = Min2(h, 4) * Scale
          /\ 40 * videoScores[i].signals.clickbaitPenalty = CLICKBAIT_FACTOR * Min2(c, 4) * Scale

\* a row was scored whose title is a capitalised word holding two authority
\* keywords, one inside the other, and whose description holds one clickbait
\* keyword three times, once in upper case
C16_Witness ==
  /\ Done
  /\ \E i \in DOMAIN rows :
       /\ rows[i].title = TitleAuth2
       /\ rows[i].description = DescRepeat
       /\ Cardinality(Found(Lowered(rows[i]), AUTHORITY_KEYWORDS)) = 2
       /\ Occurrences(rows[i].title, AUTHORITY_KEYWORDS) = 0
       /\ Cardinality(Found(Lowered(rows[i]), CLICKBAIT_KEYWORDS)) = 1
       /\ Occurrences(Lowered(rows[i]), CLICKBAIT_KEYWORDS) = 3
       /\ Occurrences(rows[i].description, CLICKBAIT_KEYWORDS) = 2
       /\ 2 * signals[i].keywordScore = Scale
       /\ 40 * signals[i].clickbaitPenalty = CLICKBAIT_FACTOR * Scale

\* the known publish dates of the rows of a channel among the first n rows
KnownDates(channelId, n) ==
  {rows[i].published_at : i \in {j \in 1..n :
      rows[j].channel_id = channelId /\ rows[j].published_at # Null}}

\* the largest date of a non-empty set
Newest(dates) == CHOOSE d \in dates : \A e \in dates : e <= d

\* value / Scale rounded to two decimals, halves up, in units of 1/Scale
IsTwoDecimalsOf(r, value) ==
  /\ r % (Scale \div 100) = 0
  /\ IsRoundOf(r \div (Scale \div 100), value, Scale \div 100)

\* C20: a channel's recency signal is scoreRecency of the most recent known
\* publishedAt among the channel's rows of the batch (0.4 when none is known);
\* unknown dates are skipped, and a last row that is older than an earlier row
\* of its channel leaves the signal at the value the earlier rows determine.
C20_ChannelRecencyLatest ==
  Done =>
    /\ \A k \in DOMAIN channelScores :
         LET known == KnownDates(channelScores[k].channelId, Len(rows))
             recency == channelScores[k].signals.recency
         IN  IF known = {}
             THEN 10 * recency = 4 * Scale
             ELSE IsTwoDecimalsOf(recency, Exp240(now - Newest(known)))
    /\ Len(rows) >= 2 =>
         LET last == rows[Len(rows)]
             prior == KnownDates(last.channel_id, Len(rows) - 1)
         IN  (last.published_at # Null /\ \E d \in prior : last.published_at < d) =>
               \A k \in DOMAIN channelScores :
                 channelScores[k].channelId = last.channel_id =>
                   IsTwoDecimalsOf(channelScores[k].signals.recency,
                                   Exp240(now - Newest(prior)))

\* a channel was scored whose first row is not its newest, with a row of
\* unknown date in the batch and a last row older than an earlier one
C20_Witness ==
  /\ Done
  /\ Len(rows) >= 3
  /\ \E i \in DOMAIN rows : rows[i].published_at = Null
  /\ LET last == rows[Len(rows)]
         prior == KnownDates(last.channel_id, Len(rows) - 1)
     IN  /\ last.published_at # Null
         /\ Cardinality(prior) >= 2
         /\ last.published_at < Newest(prior)
         /\ FirstRowOf(last.channel_id).published_at # Null
         /\ FirstRowOf(last.channel_id).published_at < Newest(prior)
         /\ \E k \in DOMAIN channelScores :
              /\ channelScores[k].channelId = last.channel_id
              /\ IsTwoDecimalsOf(channelScores[k].signals.recency,
                                 Exp240(now - Newest(prior)))

\* the positions of the rows of a channel, in input order
RowsOf(channelId) == {i \in DOMAIN rows : rows[i].channel_id = channelId}

\* the first position of a non-empty set of positions
First(positions) == CHOOSE i \in positions : \A j \in positions : i <= j

\* C21: a ScoredChannel's title, thumbnailUrl and subscriberCount, and so its
\* scale signal, are those of the first row with its channelId in input
\* order, also when that row's value is unknown and a later row's is known.
C21_FirstSeenMetadata ==
  Done =>
    \A k \in DOMAIN channelScores :
      LET c == channelScores[k]
          first == rows[First(RowsOf(c.channelId))]
      IN  /\ c.title = first.channel_title
          /\ c.thumbnailUrl = first.thumbnail_url
          /\ c.subscriberCount = first.subscriber_count
          /\ first.subscriber_count = Null => 5 * c.signals.scale = Scale
          /\ first.subscriber_count = 1000 => c.signals.scale = Scale \div 2
          /\ first.subscriber_count = 100000 => 100 * c.signals.scale = 83 * Scale

\* a channel was scored whose first row has no subscriberCount while a later
\* row of it has one, and another title
C21_Witness ==
  /\ Done
  /\ \E k \in DOMAIN channelScores :
       LET c == channelScores[k]
           own == RowsOf(c.channelId)
           first == rows[First(own)]
       IN  /\ first.subscriber_count = Null
           /\ \E j \in own : /\ rows[j].subscriber_count # Null
                             /\ rows[j].channel_title # first.channel_title
           /\ c.subscriberCount = Null
           /\ c.title = first.channel_title
           /\ 5 * c.signals.scale = Scale

\* the position in the input list of the row a ScoredVideo was made from
RowOf(video) == CHOOSE i \in DOMAIN rows : rows[i].id = video.id

\* C22: any two videos of report.videos with equal score appear there in the
\* relative order of their rows in the input list.
C22_StableVideoOrder ==
  Done =>
    \A a, b \in DOMAIN report.videos :
      (a < b /\ report.videos[a].score = report.videos[b].score)
        => RowOf(report.videos[a]) < RowOf(report.videos[b])

\* a report in which two videos of equal score follow a video of higher
\* score whose row came after theirs
C22_Witness ==
  /\ Done
  /\ \E a, b, c \in DOMAIN report.videos :
       /\ a < b /\ b < c
       /\ report.videos[a].score > report.videos[b].score
       /\ report.videos[b].score = report.videos[c].score
       /\ RowOf(report.videos[b]) < RowOf(report.videos[c])
       /\ RowOf(report.videos[c]) < RowOf(report.videos[a])

\* the SignalBreakdown of row i holds, rounded to two decimals, the extractor
\* outputs that entered raw, with tenths/10 of the clickbait keyword density
\* as its clickbaitPenalty
IsBreakdownOf(i, tenths) ==
  LET s == signals[i]
      b == videoScores[i].signals
      text == textOf(rows[i])
  IN  /\ s.depthScore = scoreDepth(rows[i].duration_seconds)
      /\ IsTwoDecimalsOf(b.depth, s.depthScore)
      /\ s.keywordScore = Density(text, AUTHORITY_KEYWORDS)
      /\ IsTwoDecimalsOf(b.methodology, s.keywordScore)
      /\ s.engagementScore = scoreEngagement(rows[i].view_count, rows[i].subscriber_count)
      /\ IsTwoDecimalsOf(b.engagement, s.engagementScore)
      /\ s.recencyScore = scoreRecency(rows[i].published_at, now)
      /\ IsTwoDecimalsOf(b.recency, s.recencyScore)
      /\ b.clickbaitPenalty % (Scale \div 100) = 0
      /\ IsRoundOf(b.clickbaitPenalty \div (Scale \div 100),
                   tenths * Density(text, CLICKBAIT_KEYWORDS), 10 * (Scale \div 100))
      /\ IsScoreOfRaw(videoScores[i].score,
           Raw20(s.depthScore, s.keywordScore, s.engagementScore, s.recencyScore,
                 s.clickbaitPenalty))

\* C23 as stated: each SignalBreakdown holds the five extractor outputs that
\* entered raw, rounded to 2 decimals, its clickbaitPenalty being the
\* clickbait-lexicon keyword density (hits/4 clamped to [0,1]).
C23_PenaltyFieldIsDensity ==
  Done => \A i \in DOMAIN rows : IsBreakdownOf(i, 10)

\* C23 amended: each SignalBreakdown holds, rounded to 2 decimals, depth =
\* scoreDepth, methodology = authority keyword density, engagement =
\* scoreEngagement, recency = scoreRecency and clickbaitPenalty = 0.6 times
\* the clickbait keyword density, which are the values that entered raw.
C23_Breakdown ==
  Done => \A i \in DOMAIN rows : IsBreakdownOf(i, CLICKBAIT_FACTOR)

\* a scored row with 4 or more clickbait terms whose breakdown reports the
\* penalty 0.6, and whose engagement was changed by the rounding
C23_Witness ==
  /\ Done
  /\ \E i \in DOMAIN rows :
       /\ Hits(textOf(rows[i]), CLICKBAIT_KEYWORDS) >= 4
       /\ 10 * videoScores[i].signals.clickbaitPenalty = 6 * Scale
       /\ videoScores[i].signals.engagement # signals[i].engagementScore

\* C24: computeAuthority leaves its input unchanged: across the call the row
\* list keeps its length and its order and every row keeps its field values.
C24_InputUnchanged ==
  [][ (pc = "called" /\ pc' = "done") =>
        /\ Len(rows') = Len(rows)
        /\ \A i \in DOMAIN rows : rows'[i] = rows[i] ]_vars

\* a call has returned whose report is sorted into another order than the
\* input and truncated to the first 20, the input list being longer
C24_Witness ==
  /\ Done
  /\ Len(rows) > TOP_VIDEOS
  /\ Len(report.videos) = TOP_VIDEOS
  /\ report.videos[1].id # rows[1].id
  /\ \A i \in DOMAIN rows : rows[i].id = i

\* two channels have the same multiset of video scores
SameScores(c1, c2) ==
  \A s \in {videoScores[i].score : i \in RowsOf(c1) \cup RowsOf(c2)} :
    Cardinality({i \in RowsOf(c1) : videoScores[i].score = s})
      = Cardinality({i \in RowsOf(c2) : videoScores[i].score = s})

\* two channels agree in what the channel scorer reads
SameChannelInputs(c1, c2) ==
  /\ SameScores(c1, c2)
  /\ rows[First(RowsOf(c1))].subscriber_count = rows[First(RowsOf(c2))].subscriber_count
  /\ LatestOf(c1) = LatestOf(c2)

\* a row, and a ScoredVideo, with the title, description, duration, view count
\* and signal breakdown taken away
BlankRow(row) ==
  [row EXCEPT !.title = NullStr, !.description = NullStr,
              !.duration_seconds = Null, !.view_count = Null]

BlankVideo(video) ==
  [video EXCEPT !.title = NullStr, !.durationSeconds = Null, !.viewCount = Null,
                !.signals = [f \in DOMAIN video.signals |-> 0]]

\* C25: with the clock frozen, two channels with the same multiset of video
\* scores, the same first-row subscriberCount and the same latest publishedAt
\* get the same avgVideoScore, score and signal breakdown, whatever the
\* titles, descriptions, durations, view counts and raw signals of their
\* videos are: within one batch, and against the batch that has the same
\* video scores but none of those fields.
C25_ChannelFromScoresOnly ==
  Done =>
    /\ \A k1, k2 \in DOMAIN channelScores :
         SameChannelInputs(channelScores[k1].channelId, channelScores[k2].channelId) =>
           /\ channelScores[k1].avgVideoScore = channelScores[k2].avgVideoScore
           /\ channelScores[k1].score = channelScores[k2].score
           /\ channelScores[k1].signals = channelScores[k2].signals
    /\ LET blankRows == [i \in DOMAIN rows |-> BlankRow(rows[i])]
           blankVideos == [i \in DOMAIN videoScores |-> BlankVideo(videoScores[i])]
           other == channelScoresOf(blankRows, blankVideos, now)
       IN  /\ Len(other) = Len(channelScores)
           /\ \A k \in DOMAIN channelScores :
                /\ other[k].channelId = channelScores[k].channelId
                /\ other[k].avgVideoScore = channelScores[k].avgVideoScore
                /\ other[k].score = channelScores[k].score
                /\ other[k].signals = channelScores[k].signals

\* two channels were scored alike whose videos have equal scores but other
\* titles and other depth signals
C25_Witness ==
  /\ Done
  /\ \E k1, k2 \in DOMAIN channelScores :
       LET c1 == channelScores[k1].channelId
           c2 == channelScores[k2].channelId
       IN  /\ k1 # k2
           /\ SameChannelInputs(c1, c2)
           /\ channelScores[k1].score = channelScores[k2].score
           /\ channelScores[k1].signals = channelScores[k2].signals
           /\ \E i \in RowsOf(c1) : \A j \in RowsOf(c2) :
                /\ rows[i].title # rows[j].title
                /\ videoScores[i].signals.depth # videoScores[j].signals.depth

\* 20 * raw of row i, from the five locals of its callback
RawOfRow(i) ==
  Raw20(signals[i].depthScore, signals[i].keywordScore, signals[i].engagementScore,
        signals[i].recencyScore, signals[i].clickbaitPenalty)

\* a short video, viewed by at most a thousandth of its subscribers, published
\* ten half-lives ago or earlier, with 4 or more clickbait terms and no
\* authority term
IsHypeRow(row) ==
  /\ row.duration_seconds # Null /\ row.duration_seconds > 0
  /\ row.duration_seconds < 300
  /\ row.view_count # Null /\ row.view_count > 0
  /\ row.subscriber_count # Null /\ row.subscriber_count >= 1000 * row.view_count
  /\ row.published_at # Null /\ now - row.published_at >= 10 * halfLife
  /\ Hits(textOf(row), CLICKBAIT_KEYWORDS) >= 4
  /\ Hits(textOf(row), AUTHORITY_KEYWORDS) = 0

\* C26: for such records raw is negative, and every record whose raw is
\* negative is reported with score exactly 0.
C26_LowerClamp ==
  Done =>
    \A i \in DOMAIN rows :
      /\ IsHypeRow(rows[i]) => RawOfRow(i) < 0
      /\ RawOfRow(i) < 0 => videoScores[i].score = 0

\* such a record was scored: its raw is below -0.005, so that only the clamp
\* makes its score 0
C26_Witness ==
  /\ Done
  /\ \E i \in DOMAIN rows :
       /\ IsHypeRow(rows[i])
       /\ 200 * RawOfRow(i) < -(20 * Scale)
       /\ videoScores[i].score = 0

\* a row whose publishedAt is unknown or not later than the clock reading
NotFuture(row) == row.published_at = Null \/ row.published_at <= now

\* C27: for records whose publishedAt is unknown or not later than the clock
\* reading raw never exceeds 1, so the upper clamp never changes it, and a
\* score of 100 is reached only when raw is at least 0.995.
C27_UpperClampIdle ==
  Done =>
    \A i \in DOMAIN rows :
      NotFuture(rows[i]) =>
        /\ RawOfRow(i) <= 20 * Scale
        /\ clamp(RawOfRow(i), 0, 20 * Scale) = Max2(RawOfRow(i), 0)
        /\ videoScores[i].score = 100 => 200 * RawOfRow(i) >= 199 * 20 * Scale

\* a record not published in the future reached score 100 with every positive
\* signal at 1 and no penalty
C27_Witness ==
  /\ Done
  /\ \E i \in DOMAIN rows :
       /\ NotFuture(rows[i])
       /\ videoScores[i].score = 100
       /\ RawOfRow(i) = 20 * Scale
       /\ signals[i].engagementScore = Scale
       /\ signals[i].recencyScore = Scale

\* C28: in a non-empty report topVideoScore is the score of the first entry
\* of report.videos and topChannelScore that of the first entry of
\* report.channels; always avgVideoScore <= topVideoScore and
\* avgChannelScore <= topChannelScore.
C28_TopIsFirst ==
  Done =>
    LET b == report.benchmarks
    IN  /\ report.videos # <<>> => b.topVideoScore = report.videos[1].score
        /\ report.channels # <<>> => b.topChannelScore = report.channels[1].score
        /\ rows # <<>> => (report.videos # <<>> /\ report.channels # <<>>)
        /\ b.avgVideoScore <= b.topVideoScore
        /\ b.avgChannelScore <= b.topChannelScore

\* a report whose first video and first channel do not come from the first
\* row, with averages strictly below the tops
C28_Witness ==
  /\ Done
  /\ Len(videoScores) > TOP_VIDEOS
  /\ Len(channelScores) > TOP_CHANNELS
  /\ report.videos[1].id # rows[1].id
  /\ report.channels[1].channelId # rows[1].channel_id
  /\ report.benchmarks.topVideoScore = report.videos[1].score
  /\ report.benchmarks.topChannelScore = report.channels[1].score
  /\ report.benchmarks.avgVideoScore < report.benchmarks.topVideoScore
  /\ report.benchmarks.avgChannelScore < report.benchmarks.topChannelScore

\* C29: the channel groups partition the scored videos: every input video
\* belongs to the group of exactly one channel, the one with its channelId,
\* and enters that channel's avgVideoScore; the group sizes sum to the number
\* of input rows; each avgVideoScore lies between the minimum and the maximum
\* score of the channel's own videos.
C29_GroupsPartition ==
  Done =>
    LET groups == channelMapOf(rows)
    IN  /\ Len(groups) = Len(channelScores)
        /\ \A i \in DOMAIN rows :
             /\ Cardinality({k \in DOMAIN channelScores :
                               channelScores[k].channelId = rows[i].channel_id}) = 1
             /\ Cardinality({k \in DOMAIN groups :
                               \E j \in DOMAIN groups[k].items :
                                 groups[k].items[j].id = rows[i].id}) = 1
        /\ \A k \in DOMAIN groups :
             /\ groups[k].channelId = channelScores[k].channelId
             /\ \A j \in DOMAIN groups[k].items :
                  groups[k].items[j].channel_id = groups[k].channelId
             /\ Len(groups[k].items) = Cardinality(RowsOf(groups[k].channelId))
        /\ SumSeq([k \in DOMAIN groups |-> Len(groups[k].items)]) = Len(rows)
        /\ \A k \in DOMAIN channelScores :
             LET own == RowsOf(channelScores[k].channelId)
                 avg == channelScores[k].avgVideoScore
             IN  /\ own # {}
                 /\ IsRoundOf(avg, SumSeq([i \in 1..Len(rows) |->
                                 IF i \in own THEN videoScores[i].score ELSE 0]),
                              Cardinality(own))
                 /\ \E i \in own : videoScores[i].score <= avg
                 /\ \E i \in own : avg <= videoScores[i].score

\* two or more channels of several videos each were scored, one of them with an
\* average strictly between its lowest and its highest video score
C29_Witness ==
  /\ Done
  /\ Len(channelScores) >= 2
  /\ \A k \in DOMAIN channelScores :
       Cardinality(RowsOf(channelScores[k].channelId)) >= 2
  /\ \E k \in DOMAIN channelScores :
       LET own == RowsOf(channelScores[k].channelId)
       IN  /\ \E i \in own : videoScores[i].score < channelScores[k].avgVideoScore
           /\ \E i \in own : channelScores[k].avgVideoScore < videoScores[i].score

\* C30: a channel none of whose videos has a known publishedAt gets the
\* recency signal 0.4; if moreover its subscriberCount is unknown and its
\* only video is an all-defaults one of score 19, its avgVideoScore is 19 and
\* its score is 22.
C30_UndatedChannel ==
  Done =>
    \A k \in DOMAIN channelScores :
      LET c == channelScores[k]
          own == RowsOf(c.channelId)
      IN  (\A i \in own : rows[i].published_at = Null) =>
            /\ 10 * c.signals.recency = 4 * Scale
            /\ ( /\ Cardinality(own) = 1
                 /\ \A i \in own : IsBare(rows[i]) /\ videoScores[i].score = 19 )
               => /\ c.subscriberCount = Null
                  /\ c.avgVideoScore = 19
                  /\ c.score = 22

\* a channel was scored whose only video is an undated all-defaults one of
\* score 19
C30_Witness ==
  /\ Done
  /\ \E k \in DOMAIN channelScores :
       LET c == channelScores[k]
           own == RowsOf(c.channelId)
       IN  /\ \A i \in own : IsBare(rows[i]) /\ videoScores[i].score = 19
           /\ Cardinality(own) = 1
           /\ c.avgVideoScore = 19
           /\ c.score = 22
           /\ 10 * c.signals.recency = 4 * Scale
           /\ 5 * c.signals.scale = Scale
====
